---- MODULE Spec2Model ----
(***************************************************************************)
(* A model of the prescription-analysis service: the FastAPI handlers of   *)
(* app.py (drug extraction, the four drug-knowledge resolvers, the         *)
(* in-memory order table) and the bulk importer import_data.py that fills  *)
(* the SQLite table the medicine lookup falls back to.                     *)
(*                                                                         *)
(* Python values are written as follows: a dict is a record or a function, *)
(* a list or a tuple is a sequence, a set is a set, None/absent key is an  *)
(* empty sequence where the code only tests truthiness.  A handler's       *)
(* outcome is a record [raised, result, sql]: raised = "" for a normal     *)
(* return and the exception's name when the handler ends in an exception   *)
(* that no except clause catches.                                          *)
(***************************************************************************)
EXTENDS Integers, Sequences, FiniteSets, TLC

VARIABLES
    orders,      \* app.py:87   the in-memory order table, order_id -> order dict
    inflight,    \* POST /order_medicines/ requests received and not yet handled
    replies,     \* the replies of order_medicines, in the order they were produced
    json_file,   \* the feed file import_data.py reads (import_data.py:76)
    medicines,   \* the table "medicines" of medicines.db
    printed,     \* the last line import_data.py printed
    import_pc,   \* where a run of import_data.py stands: idle, checked, dropped,
                 \* created, opened, committed
    f,           \* import_data.py:27 the file the run has open, NoFile when none
    reading,     \* uploads whose handler is suspended at await file.read()
    ner_model,   \* app.py:32-36 the NER pipeline, or None when loading failed
    tesseract,   \* whether the OCR engine is found at the configured path
    out          \* the last handler call: [op, args, raised, result, sql]

vars == <<orders, inflight, replies, json_file, medicines, printed, import_pc, f,
          reading, ner_model, tesseract, out>>

(***************************************************************************)
(* Bounds of the model.                                                    *)
(***************************************************************************)
NumClients == 2     \* clients that post orders concurrently
MaxOrders == 2      \* orders created in one run
MaxDrugs == 3       \* length of a drug list given to check_interactions
MaxFeed == 2        \* records in a feed file
MaxSpans == 2       \* spans the NER step returns for one prescription

(***************************************************************************)
(* str.lower().  Strings are atomic values here, so the conversion is      *)
(* given by its graph on every string of the model that holds an upper-    *)
(* case letter; a string without one is its own lower-case form.           *)
(***************************************************************************)
LowerTable ==
    ("Aspirin" :> "aspirin") @@ ("ASPIRIN" :> "aspirin") @@
    ("Ibuprofen" :> "ibuprofen") @@ ("IBUPROFEN" :> "ibuprofen") @@
    ("Paracetamol" :> "paracetamol") @@ ("Naproxen" :> "naproxen") @@
    ("Acetaminophen" :> "acetaminophen") @@
    ("Metformin" :> "metformin") @@ ("METFORMIN" :> "metformin") @@
    ("Glucophage" :> "glucophage") @@ ("Advil" :> "advil") @@
    ("DRUG" :> "drug") @@ ("Drug" :> "drug") @@
    ("Chemical" :> "chemical") @@ ("CHEMICAL" :> "chemical") @@
    ("Medication" :> "medication") @@ ("Disease_disorder" :> "disease_disorder")

lower_identity(s) == s

lower(s) == IF s \in DOMAIN LowerTable THEN LowerTable[s] ELSE s

(***************************************************************************)
(* The static tables of app.py.                                            *)
(***************************************************************************)
drug_interactions ==
    (<<"aspirin", "ibuprofen">> :> "Increased risk of bleeding") @@
    (<<"paracetamol", "ibuprofen">> :> "Generally safe")

drug_alternatives ==
    ("aspirin" :> <<"acetaminophen", "naproxen">>) @@
    ("ibuprofen" :> <<"acetaminophen", "naproxen">>) @@
    ("paracetamol" :> <<"aspirin", "ibuprofen", "naproxen">>)

dosage_by_age ==
    ("aspirin" :> [child |-> "50mg", adult |-> "100mg"]) @@
    ("ibuprofen" :> [child |-> "100mg", adult |-> "200mg"]) @@
    ("paracetamol" :> [child |-> "120mg", adult |-> "500mg"]) @@
    ("acetaminophen" :> [child |-> "120mg", adult |-> "500mg"]) @@
    ("naproxen" :> [child |-> "100mg", adult |-> "250mg"])

medicine_info_db ==
    ("aspirin" :> [
        name |-> "Aspirin",
        description |-> "Aspirin is a nonsteroidal anti-inflammatory drug (NSAID) used to reduce pain, fever, and inflammation.",
        uses |-> "Pain relief (headaches, muscle aches, etc.), fever reduction, and prevention of blood clots (at low doses).",
        side_effects |-> "Stomach upset, heartburn, nausea, and increased risk of bleeding."]) @@
    ("ibuprofen" :> [
        name |-> "Ibuprofen",
        description |-> "Ibuprofen is an NSAID used to relieve pain, fever, and inflammation.",
        uses |-> "Used for headaches, menstrual cramps, dental pain, and arthritis.",
        side_effects |-> "Stomach pain, nausea, vomiting, dizziness, and rash."]) @@
    ("acetaminophen" :> [
        name |-> "Acetaminophen",
        description |-> "Acetaminophen (also known as Paracetamol) is a pain reliever and fever reducer.",
        uses |-> "Treats mild to moderate pain (headaches, backaches) and reduces fever.",
        side_effects |-> "Rarely causes side effects at recommended doses, but can cause liver damage in large amounts."]) @@
    ("paracetamol" :> [
        name |-> "Paracetamol",
        description |-> "Paracetamol (also known as Acetaminophen) is a pain reliever and fever reducer.",
        uses |-> "Treats mild to moderate pain (headaches, backaches) and reduces fever.",
        side_effects |-> "Rarely causes side effects at recommended doses, but can cause liver damage in large amounts."])

AdultAge == 18

(***************************************************************************)
(* Outcomes of a handler.                                                  *)
(***************************************************************************)
\* A normal return; sql lists the statements the handler ran on medicines.db.
Return(value) == [raised |-> "", result |-> value, sql |-> <<>>]

\* An exception leaves the handler: FastAPI answers 500 Internal Server Error.
Raise(exception) ==
    [raised |-> exception, result |-> [detail |-> "Internal Server Error"], sql |-> <<>>]

(***************************************************************************)
(* ibm_watson_drug_interaction_analysis (app.py:142-153).                  *)
(***************************************************************************)
\* The body of the inner loop with the reverse lookup forgotten.
PairRecords_forward_only(pair, pair_rev) ==
    IF pair \in DOMAIN drug_interactions
    THEN <<[drugs |-> pair, interaction |-> drug_interactions[pair]]>>
    ELSE <<>>

\* The body of the inner loop appending a record whether or not a fact is stored.
PairRecords_always(pair, pair_rev) ==
    IF pair \in DOMAIN drug_interactions
    THEN <<[drugs |-> pair, interaction |-> drug_interactions[pair]]>>
    ELSE IF pair_rev \in DOMAIN drug_interactions
    THEN <<[drugs |-> pair_rev, interaction |-> drug_interactions[pair_rev]]>>
    ELSE <<[drugs |-> pair, interaction |-> "None"]>>

\* app.py:149-152: what one (i, j) iteration appends to interactions.
PairRecords(pair, pair_rev) ==
    IF pair \in DOMAIN drug_interactions
    THEN <<[drugs |-> pair, interaction |-> drug_interactions[pair]]>>
    ELSE IF pair_rev \in DOMAIN drug_interactions
    THEN <<[drugs |-> pair_rev, interaction |-> drug_interactions[pair_rev]]>>
    ELSE <<>>

RECURSIVE InnerLoop_prepending(_, _, _, _)
\* The inner loop putting each new record in front of the earlier ones.
InnerLoop_prepending(drugs, i, j, interactions) ==
    IF j > Len(drugs) THEN interactions
    ELSE InnerLoop_prepending(drugs, i, j + 1,
                   PairRecords(<<drugs[i], drugs[j]>>, <<drugs[j], drugs[i]>>) \o interactions)

RECURSIVE InnerLoop(_, _, _, _)
\* app.py:146-152: for j in range(i + 1, len(drugs)), 1-based here.
InnerLoop(drugs, i, j, interactions) ==
    IF j > Len(drugs) THEN interactions
    ELSE InnerLoop(drugs, i, j + 1,
                   interactions \o PairRecords(<<drugs[i], drugs[j]>>, <<drugs[j], drugs[i]>>))

RECURSIVE OuterLoop(_, _, _)
\* app.py:145: for i in range(len(drugs)).
OuterLoop(drugs, i, interactions) ==
    IF i > Len(drugs) THEN interactions
    ELSE OuterLoop(drugs, i + 1, InnerLoop(drugs, i, i + 1, interactions))

ibm_watson_drug_interaction_analysis(drugs) ==
    OuterLoop([k \in 1..Len(drugs) |-> lower(drugs[k])], 1, <<>>)

\* app.py:155-158
check_interactions(drugs) ==
    Return([interactions |-> ibm_watson_drug_interaction_analysis(drugs)])

(***************************************************************************)
(* get_dosage (app.py:160-169) and get_alternatives (app.py:171-175).      *)
(***************************************************************************)
\* The age band with the threshold taken inclusive.
get_dosage_inclusive(drug_arg, age) ==
    LET drug == lower(drug_arg) IN
    IF drug \notin DOMAIN dosage_by_age
    THEN Return([error |-> "Drug not found"])
    ELSE Return([drug |-> drug,
                 recommended_dosage |-> IF age <= AdultAge
                                        THEN dosage_by_age[drug].child
                                        ELSE dosage_by_age[drug].adult])

get_dosage(drug_arg, age) ==
    LET drug == lower(drug_arg) IN
    IF drug \notin DOMAIN dosage_by_age
    THEN Return([error |-> "Drug not found"])
    ELSE Return([drug |-> drug,
                 recommended_dosage |-> IF age < AdultAge
                                        THEN dosage_by_age[drug].child
                                        ELSE dosage_by_age[drug].adult])

get_alternatives(drug_arg) ==
    LET drug == lower(drug_arg) IN
    Return([drug |-> drug,
            alternatives |-> IF drug \in DOMAIN drug_alternatives
                             THEN drug_alternatives[drug] ELSE <<>>])

(***************************************************************************)
(* import_data.py: the feed file and the bulk table.                       *)
(* A feed record holds, for each key the importer reads, the list stored   *)
(* under it; the empty list stands for a missing key as well, since every  *)
(* test of the importer is `key in d and d[key]`.  generic_name and        *)
(* brand_name are the lists under item["openfda"]; their elements are JSON *)
(* values, a string or null.                                               *)
(***************************************************************************)
JStr(s) == [null |-> FALSE, str |-> s]

JNull == [null |-> TRUE, str |-> ""]

FeedItem(generic, brand, indications, pharmacology, adverse, warn, precaution) ==
    [generic_name |-> generic, brand_name |-> brand,
     indications_and_usage |-> indications,
     pharmacology_and_toxicology |-> pharmacology,
     adverse_reactions |-> adverse, warnings |-> warn, precautions |-> precaution]

FeedItems ==
    { FeedItem(<<JStr("Metformin"), JStr("Glucophage")>>, <<JStr("Glucophage")>>,
               <<"Type 2 diabetes.">>, <<>>,
               <<"Nausea.", "Diarrhea.">>, <<"Lactic acidosis.">>, <<>>),
      FeedItem(<<>>, <<JStr("METFORMIN")>>, <<>>, <<"Lowers", "glucose.">>,
               <<>>, <<"Lactic acidosis.">>, <<"Renal function.">>),
      FeedItem(<<JStr("ASPIRIN")>>, <<>>, <<>>, <<>>, <<>>, <<>>, <<"Bleeding.">>),
      FeedItem(<<>>, <<>>, <<"Unlabelled product.">>, <<>>, <<>>, <<>>, <<>>),
      FeedItem(<<JStr("")>>, <<JStr("Advil")>>, <<"Pain.">>, <<>>, <<>>, <<>>, <<>>),
      FeedItem(<<JNull>>, <<JStr("Advil")>>, <<>>, <<>>, <<>>, <<>>, <<>>) }

RECURSIVE SeqsUpTo(_, _)
\* The sequences over S of length at most n.
SeqsUpTo(S, n) ==
    IF n = 0 THEN {<<>>}
    ELSE LET shorter == SeqsUpTo(S, n - 1) IN
         shorter \cup {Append(q, x) : q \in shorter, x \in S}

\* The texts of the JSONError ijson raises on a broken document.
ParseErrors == {"parse error: premature EOF", "lexical error: invalid char in json text."}

\* The states of the feed file: absent, or a JSON document with a "results"
\* array, well-formed (parse_error = "") or broken after the records of
\* results (ijson then raises JSONError with the text parse_error).
NoFile == [exists |-> FALSE, well_formed |-> FALSE, parse_error |-> "", results |-> <<>>]

Files ==
    {NoFile} \cup
    {[exists |-> TRUE, well_formed |-> TRUE, parse_error |-> "", results |-> r] :
        r \in SeqsUpTo(FeedItems, MaxFeed)} \cup
    {[exists |-> TRUE, well_formed |-> FALSE, parse_error |-> e, results |-> r] :
        e \in ParseErrors, r \in SeqsUpTo(FeedItems, MaxFeed)}

\* The table: absent (medicines.db without a table "medicines"), or its rows by
\* primary key.
NeverImported == [exists |-> FALSE, rows |-> <<>>]

EmptyTable == [exists |-> TRUE, rows |-> <<>>]

RECURSIVE join(_)
\* " ".join(parts)
join(parts) ==
    IF Len(parts) = 0 THEN ""
    ELSE IF Len(parts) = 1 THEN parts[1]
    ELSE parts[1] \o " " \o join(Tail(parts))

\* import_data.py:35, 37: .lower() of a null name raises AttributeError.
item_raises(item) ==
    IF item.generic_name # <<>> THEN item.generic_name[1].null
    ELSE IF item.brand_name # <<>> THEN item.brand_name[1].null
    ELSE FALSE

\* import_data.py:32-37, for an item that does not raise.
item_name(item) ==
    IF item.generic_name # <<>> THEN lower(item.generic_name[1].str)
    ELSE IF item.brand_name # <<>> THEN lower(item.brand_name[1].str)
    ELSE ""

\* import_data.py:40-44
item_uses(item) ==
    IF item.indications_and_usage # <<>> THEN join(item.indications_and_usage)
    ELSE IF item.pharmacology_and_toxicology # <<>> THEN join(item.pharmacology_and_toxicology)
    ELSE "Not available."

\* import_data.py:47-53
item_side_effects(item) ==
    IF item.adverse_reactions # <<>> THEN join(item.adverse_reactions)
    ELSE IF item.warnings # <<>> THEN join(item.warnings)
    ELSE IF item.precautions # <<>> THEN join(item.precautions)
    ELSE "Not available."

\* import_data.py:55-61: the row the INSERT binds.
item_row(item) ==
    [name |-> item_name(item), description |-> item_uses(item),
     uses |-> item_uses(item), side_effects |-> item_side_effects(item)]

\* INSERT OR REPLACE: a later row with the same key overwrites.
insert_or_replace(rows, row) ==
    (row.name :> row) @@ rows

\* INSERT OR IGNORE INTO medicines: name is the primary key.
insert_or_ignore(rows, row) ==
    IF row.name \in DOMAIN rows THEN rows ELSE (row.name :> row) @@ rows

RECURSIVE import_items(_, _)
\* import_data.py:29-61: the loop over results.item, rows being the table so far.
import_items(rows, items) ==
    IF items = <<>> THEN rows
    ELSE LET item == Head(items) IN
         import_items(IF item_name(item) # "" THEN insert_or_ignore(rows, item_row(item))
                      ELSE rows,
                      Tail(items))

NotFoundMsg == "Error: The file 'drug-drugsfda-0001-of-0001.json' was not found."
PopulatedMsg == "Database populated successfully from JSON."

\* import_data.py:67, e being the text of the JSONError.
JsonErrorMsg(e) == "Error parsing JSON file: " \o e \o ". The file may be malformed."

\* import_data.py:70, e being the text of the exception.
UnexpectedMsg(e) == "An unexpected error occurred: " \o e

AttributeErrorText == "'NoneType' object has no attribute 'lower'"
NoSuchFileText == "[Errno 2] No such file or directory: 'drug-drugsfda-0001-of-0001.json'"

\* import_data.py:29-71: the open file is read in a stream, the INSERTs are
\* one transaction, committed at the end or rolled back by either except
\* clause; the table is then the empty one CREATE TABLE left.  On a broken
\* document the parser may or may not hand out the records before the break,
\* so a record that raises and the JSONError compete.
import_load(file) ==
    LET raising == \E k \in DOMAIN file.results : item_raises(file.results[k])
        failed(msg) == [medicines |-> EmptyTable, printed |-> msg]
    IN  IF file.well_formed
        THEN IF raising THEN {failed(UnexpectedMsg(AttributeErrorText))}
             ELSE {[medicines |-> [exists |-> TRUE, rows |-> import_items(<<>>, file.results)],
                    printed |-> PopulatedMsg]}
        ELSE {failed(JsonErrorMsg(file.parse_error))}
             \cup (IF raising THEN {failed(UnexpectedMsg(AttributeErrorText))} ELSE {})

\* import_data.py:5-73, a whole run with the file left alone meanwhile: the
\* outcomes it can have.  DROP TABLE and CREATE TABLE run outside a
\* transaction and so are kept whatever follows.
import_data_from_json(file, table) ==
    IF ~file.exists THEN {[medicines |-> table, printed |-> NotFoundMsg]}
    ELSE import_load(file)

\* The tables the service can find: none before any run and after DROP TABLE,
\* the empty one after CREATE TABLE, and what a run leaves behind.
ReachableTables ==
    {NeverImported, EmptyTable}
    \cup {run.medicines :
            run \in UNION {import_data_from_json(file, NeverImported) : file \in Files}}

(***************************************************************************)
(* get_medicine_info (app.py:202-218).                                     *)
(***************************************************************************)
SelectByName(name) == [query |-> "SELECT * FROM medicines WHERE name = ?", params |-> <<name>>]

get_medicine_info(table, drug_name) ==
    LET name == lower(drug_name) IN
    IF name \in DOMAIN medicine_info_db
    THEN Return(medicine_info_db[name])
    ELSE IF ~table.exists
    THEN \* cursor.execute: no such table: medicines
         [Raise("sqlite3.OperationalError") EXCEPT !.sql = <<SelectByName(name)>>]
    ELSE IF name \in DOMAIN table.rows
    THEN [Return(table.rows[name]) EXCEPT !.sql = <<SelectByName(name)>>]
    ELSE [Return([error |-> "Medicine not found"]) EXCEPT !.sql = <<SelectByName(name)>>]

(***************************************************************************)
(* The order table (app.py:87, 177-200).                                   *)
(***************************************************************************)
Clients == 1..NumClients

\* The values uuid.uuid4() can return, as opaque tokens; str() of a UUID is
\* its canonical text, one text per value.
UUIDs == 1..(MaxOrders + 1)

\* A generator that may hand out a value it has handed out before.
uuid4_repeating(issued) == UUIDs

\* app.py:179: uuid.uuid4() draws 122 random bits; the model takes the
\* library's contract, a value not handed out before, and leaves which one open.
uuid4(issued) == UUIDs \ issued

\* The request bodies the clients post, one per client and pairwise distinct;
\* every mobile_number matches the pattern of app.py:104, so the handler runs.
OrderBodies ==
    << [drugs |-> <<"aspirin">>, patient_name |-> "A", location |-> "X",
        mobile_number |-> "1234567890"],
       [drugs |-> <<"aspirin">>, patient_name |-> "B", location |-> "X",
        mobile_number |-> "0987654321"],
       [drugs |-> <<"ibuprofen", "paracetamol">>, patient_name |-> "C", location |-> "Y",
        mobile_number |-> "1234567890"],
       [drugs |-> <<>>, patient_name |-> "D", location |-> "Z",
        mobile_number |-> "5555555555"] >>

RequestOf(c) == OrderBodies[((c - 1) % Len(OrderBodies)) + 1]

\* The stored dict with the reply's status in place of the order's.
OrderEntry_reply_status(data) ==
    [patient |-> data.patient_name, drugs |-> data.drugs, location |-> data.location,
     mobile_number |-> data.mobile_number, status |-> "Order placed"]

\* app.py:180-186: the dict stored under the new order_id.
OrderEntry(data) ==
    [patient |-> data.patient_name, drugs |-> data.drugs, location |-> data.location,
     mobile_number |-> data.mobile_number, status |-> "Processing"]

\* app.py:177-187, for the order_id that uuid4 returned: the table afterwards
\* and the handler's outcome.
order_medicines(table, data, order_id) ==
    [orders |-> (order_id :> OrderEntry(data)) @@ [k \in DOMAIN table \ {order_id} |-> table[k]],
     outcome |-> Return([order_id |-> order_id, status |-> "Order placed"])]

\* app.py:189-200; a stored order is never an empty dict, so `not order` is
\* the missing key.
order_status(table, order_id) ==
    IF order_id \notin DOMAIN table
    THEN Return([error |-> "Order not found"])
    ELSE Return([order_id |-> order_id,
                 status |-> table[order_id].status,
                 drugs |-> table[order_id].drugs,
                 location |-> table[order_id].location,
                 mobile_number |-> table[order_id].mobile_number])

(***************************************************************************)
(* extract_drugs_from_prescription (app.py:113-140).  The OCR text and the *)
(* NER spans are inputs: both engines are outside this program.            *)
(***************************************************************************)
Entity(group, word) == [entity_group |-> group, word |-> word]

Entities ==
    { Entity("DRUG", "Aspirin"), Entity("chemical", "aspirin"),
      Entity("Chemical", "ibuprofen"), Entity("Medication", "paracetamol"),
      Entity("drug", "Metformin") }

Texts == {"Aspirin 75mg, Ibuprofen 200mg"}

\* list(s): the elements of a set in some order, each once.
ListsOf(S) == {l \in [1..Cardinality(S) -> S] : {l[k] : k \in DOMAIN l} = S}

\* app.py:129-132
TaggedDrugs(ner_results) ==
    {lower(ner_results[k].word) :
        k \in {i \in DOMAIN ner_results :
                 lower(ner_results[i].entity_group) \in {"drug", "chemical"}}}

\* The filter without the intersection with the known drugs.
KnownDrugs_unfiltered(drugs) == drugs

\* app.py:135-136
KnownDrugs(drugs) == drugs \cap DOMAIN dosage_by_age

\* What a step inside the try block of app.py:118-138 ends in: no exception
\* (exception = ""), or an exception of the named class with its text.
Completed == [exception |-> "", message |-> ""]
Raised(exception, message) == [exception |-> exception, message |-> message]

\* The BytesIO object of line 120 lies at an address the run fixes.
Addresses == {"0x7f3c5a1d2e80", "0x7f3c5a1d2f40"}

\* app.py:120: Pillow names the object it could not decode.
ImageOpen(upload) ==
    IF upload.image_ok THEN {Completed}
    ELSE {Raised("UnidentifiedImageError",
                 "cannot identify image file <_io.BytesIO object at " \o a \o ">") :
             a \in Addresses}

\* Texts of the other failures of the OCR engine and of the NER pipeline.
OcrErrors == {"(1, 'Error opening data file eng.traineddata')"}
NerErrors == {"The size of tensor a (600) must match the size of tensor b (512) at non-singleton dimension 1"}

\* app.py:124: the text read off the image, or the engine is not at the
\* configured path, or it fails otherwise.
image_to_string(found, texts) ==
    IF ~found THEN {[run |-> Raised("TesseractNotFoundError", ""), text |-> ""]}
    ELSE {[run |-> Completed, text |-> t] : t \in texts}
         \cup {[run |-> Raised("TesseractError", e), text |-> ""] : e \in OcrErrors}

\* app.py:128: the spans of the text, or the pipeline fails.
NerRuns(spans) ==
    {[run |-> Completed, results |-> r] : r \in spans}
    \cup {[run |-> Raised("RuntimeError", e), results |-> <<>>] : e \in NerErrors}

\* app.py:139-140
FailedToExtract(e) == [error |-> "Failed to extract drugs: " \o e]

\* The outcomes the handler can have, given what Image.open, image_to_string
\* and the NER pipeline do when they are reached; the outcomes of a success
\* differ in the order of the list made from the set.
extract_drugs_from_prescription(model, image, ocr, ner) ==
    IF model = "None"
    THEN {Return([error |-> "Failed to load NER model. Please check your internet connection."])}
    ELSE IF image.exception # ""
    THEN {Return(FailedToExtract(image.message))}
    ELSE IF ocr.run.exception = "TesseractNotFoundError"
    THEN {Return([error |-> "Tesseract OCR engine not found. Please install it and set the path in app.py."])}
    ELSE IF ocr.run.exception # ""
    THEN {Return(FailedToExtract(ocr.run.message))}
    ELSE IF ner.run.exception # ""
    THEN {Return(FailedToExtract(ner.run.message))}
    ELSE {Return([extracted_drugs |-> l, raw_text |-> ocr.text]) :
             l \in ListsOf(KnownDrugs(TaggedDrugs(ner.results)))}

(***************************************************************************)
(* The inputs the handlers are called with.                                *)
(***************************************************************************)
DrugNames ==
    {"aspirin", "Aspirin", "ASPIRIN", "ibuprofen", "IBUPROFEN", "paracetamol",
     "acetaminophen", "naproxen", "Naproxen", "metformin", "Metformin", "METFORMIN",
     "advil", "unknownium", ""}

ListNames == {"aspirin", "ibuprofen", "Ibuprofen", "paracetamol", ""}

DrugLists == SeqsUpTo(ListNames, MaxDrugs)

Ages == {-40, -1, 0, 1, 17, 18, 19, 65}

\* The uploads: the image file decodes or does not.
Uploads == {[image_ok |-> TRUE], [image_ok |-> FALSE]}

\* What the order service is probed with between orders.
ProbeNames == {"Aspirin", "metformin"}
ProbeLists == {<<"Ibuprofen", "aspirin">>}
ProbeAges == {17, 18}
ProbeUploads == {[image_ok |-> TRUE]}
ProbeSpans == {<<Entity("DRUG", "Aspirin")>>}

\* The feed files put in place while the model runs: one record, which has a
\* generic name; well-formed or broken.
ProbeFeeds ==
    {file \in Files : /\ file.exists
                      /\ Len(file.results) = 1
                      /\ file.results[1].generic_name # <<>>}

(***************************************************************************)
(* Actions: one per handler, or per part of a handler between two awaits;  *)
(* one per statement of the importer that other processes can see; and the *)
(* steps of the feed file's owner.                                         *)
(***************************************************************************)
Call(op, args, outcome) ==
    [op |-> op, args |-> args, raised |-> outcome.raised, result |-> outcome.result,
     sql |-> outcome.sql]

NoCall == Call("", <<>>, Return([none |-> TRUE]))

orderVars == <<orders, inflight, replies>>
importVars == <<json_file, medicines, printed, import_pc, f>>
engineVars == <<ner_model, tesseract>>

\* A client posts its order; the request waits for the event loop.
Submit ==
    \E c \in Clients :
        /\ \A m \in inflight : m.client # c
        /\ Len(replies) + Cardinality(inflight) < MaxOrders
        /\ inflight' = inflight \cup {[client |-> c, data |-> RequestOf(c)]}
        /\ UNCHANGED <<orders, replies, importVars, reading, engineVars, out>>

\* The event loop runs order_medicines on one waiting request; the handler has
\* no await, so it runs to its return before any other handler starts.
OrderMedicines ==
    \E m \in inflight :
        \E order_id \in uuid4(DOMAIN orders) :
            LET done == order_medicines(orders, m.data, order_id) IN
            /\ orders' = done.orders
            /\ inflight' = inflight \ {m}
            /\ replies' = Append(replies, [client |-> m.client, data |-> m.data,
                                           reply |-> done.outcome.result,
                                           waiting |-> {w.client : w \in inflight}])
            /\ out' = Call("order_medicines", <<m.data>>, done.outcome)
            /\ UNCHANGED <<importVars, reading, engineVars>>

OrderStatus ==
    \E order_id \in UUIDs :
        /\ out' = Call("order_status", <<order_id>>, order_status(orders, order_id))
        /\ UNCHANGED <<orderVars, importVars, reading, engineVars>>

CheckInteractions(lists) ==
    \E drugs \in lists :
        /\ out' = Call("check_interactions", <<drugs>>, check_interactions(drugs))
        /\ UNCHANGED <<orderVars, importVars, reading, engineVars>>

GetDosage(names, ages) ==
    \E drug \in names, age \in ages :
        /\ out' = Call("get_dosage", <<drug, age>>, get_dosage(drug, age))
        /\ UNCHANGED <<orderVars, importVars, reading, engineVars>>

GetAlternatives(names) ==
    \E drug \in names :
        /\ out' = Call("get_alternatives", <<drug>>, get_alternatives(drug))
        /\ UNCHANGED <<orderVars, importVars, reading, engineVars>>

GetMedicineInfo(names) ==
    \E drug_name \in names :
        /\ out' = Call("get_medicine_info", <<drug_name>>, get_medicine_info(medicines, drug_name))
        /\ UNCHANGED <<orderVars, importVars, reading, engineVars>>

\* app.py:113-119: the handler starts on an upload; without a NER model it
\* returns at once, else it is suspended at await file.read() and other
\* handlers run meanwhile.
ExtractBegin(uploads) ==
    \E upload \in uploads \ reading :
        IF ner_model = "None"
        THEN /\ \E outcome \in extract_drugs_from_prescription(
                                   ner_model, Completed,
                                   [run |-> Completed, text |-> ""],
                                   [run |-> Completed, results |-> <<>>]) :
                   out' = Call("extract_drugs", <<upload>>, outcome)
             /\ UNCHANGED <<orderVars, importVars, reading, engineVars>>
        ELSE /\ reading' = reading \cup {upload}
             /\ UNCHANGED <<orderVars, importVars, engineVars, out>>

\* app.py:119-140: the read is over and the handler runs to its return; image,
\* ocr and ner are what lines 120, 124 and 128 do if the handler gets there.
ExtractResume(texts, spans) ==
    \E upload \in reading :
        \E image \in ImageOpen(upload), ocr \in image_to_string(tesseract, texts),
           ner \in NerRuns(spans) :
            \E outcome \in extract_drugs_from_prescription(ner_model, image, ocr, ner) :
                /\ reading' = reading \ {upload}
                /\ out' = Call("extract_drugs", <<image, ocr, ner>>, outcome)
                /\ UNCHANGED <<orderVars, importVars, engineVars>>

\* import_data.py:7-9: a run starts; without the feed file it prints and ends.
ImportCheck ==
    /\ import_pc = "idle"
    /\ IF ~json_file.exists
       THEN /\ printed' = NotFoundMsg
            /\ UNCHANGED import_pc
       ELSE /\ import_pc' = "checked"
            /\ UNCHANGED printed
    /\ UNCHANGED <<orderVars, json_file, medicines, f, reading, engineVars, out>>

\* import_data.py:11-15: DROP TABLE takes effect at once.
ImportDrop ==
    /\ import_pc = "checked"
    /\ medicines' = NeverImported
    /\ import_pc' = "dropped"
    /\ UNCHANGED <<orderVars, json_file, printed, f, reading, engineVars, out>>

\* import_data.py:16-23: CREATE TABLE takes effect at once.
ImportCreate ==
    /\ import_pc = "dropped"
    /\ medicines' = EmptyTable
    /\ import_pc' = "created"
    /\ UNCHANGED <<orderVars, json_file, printed, f, reading, engineVars, out>>

\* import_data.py:27: the run opens the file now in place and reads that one
\* whatever is done to the folder later; without a file open() raises, the
\* second except clause prints and the run ends (lines 69-73).
ImportOpen ==
    /\ import_pc = "created"
    /\ IF json_file.exists
       THEN /\ f' = json_file
            /\ import_pc' = "opened"
            /\ UNCHANGED printed
       ELSE /\ printed' = UnexpectedMsg(NoSuchFileText)
            /\ import_pc' = "idle"
            /\ UNCHANGED f
    /\ UNCHANGED <<orderVars, json_file, medicines, reading, engineVars, out>>

\* import_data.py:29-63, 66-73: the loop, the end of the with block, which
\* closes the file, then the commit that makes the rows visible; or an
\* exception, which closes the file too, the line its except clause prints,
\* the rollback and the end of the run.
ImportRead ==
    /\ import_pc = "opened"
    /\ f' = NoFile
    /\ \E run \in import_load(f) :
          IF run.printed = PopulatedMsg
          THEN /\ medicines' = run.medicines
               /\ import_pc' = "committed"
               /\ UNCHANGED printed
          ELSE /\ printed' = run.printed
               /\ import_pc' = "idle"
               /\ UNCHANGED medicines
    /\ UNCHANGED <<orderVars, json_file, reading, engineVars, out>>

\* import_data.py:64, 73: the success line, and the run ends.
ImportPrint ==
    /\ import_pc = "committed"
    /\ printed' = PopulatedMsg
    /\ import_pc' = "idle"
    /\ UNCHANGED <<orderVars, json_file, medicines, f, reading, engineVars, out>>

\* The feed file is taken out of the importer's folder.
RemoveFeed ==
    /\ json_file.exists
    /\ json_file' = NoFile
    /\ UNCHANGED <<orderVars, medicines, printed, import_pc, f, reading, engineVars, out>>

\* A feed file is put into the importer's folder.
WriteFeed ==
    /\ ~json_file.exists
    /\ json_file' \in ProbeFeeds
    /\ UNCHANGED <<orderVars, medicines, printed, import_pc, f, reading, engineVars, out>>

(***************************************************************************)
(* Specifications.                                                         *)
(***************************************************************************)
\* The service after start-up: no orders, the NER model loaded, no import run.
Init ==
    /\ orders = <<>>
    /\ inflight = {}
    /\ replies = <<>>
    /\ json_file = NoFile
    /\ medicines = NeverImported
    /\ printed = ""
    /\ import_pc = "idle"
    /\ f = NoFile
    /\ reading = {}
    /\ ner_model = "pipeline"
    /\ tesseract = TRUE
    /\ out = NoCall

\* The order service, with resolver calls and an upload between the orders.
Next ==
    \/ Submit
    \/ OrderMedicines
    \/ OrderStatus
    \/ CheckInteractions(ProbeLists)
    \/ GetDosage(ProbeNames, ProbeAges)
    \/ GetAlternatives(ProbeNames)
    \/ GetMedicineInfo(ProbeNames)
    \/ ExtractBegin(ProbeUploads)
    \/ ExtractResume(Texts, ProbeSpans)

Spec == Init /\ [][Next]_vars

\* The resolvers over every input of the model, the bulk table being in any
\* state the importer, or no importer, shows it in.
InitLookup ==
    /\ orders = <<>>
    /\ inflight = {}
    /\ replies = <<>>
    /\ json_file = NoFile
    /\ medicines \in ReachableTables
    /\ printed = ""
    /\ import_pc = "idle"
    /\ f = NoFile
    /\ reading = {}
    /\ ner_model = "pipeline"
    /\ tesseract = TRUE
    /\ out = NoCall

NextLookup ==
    \/ CheckInteractions(DrugLists)
    \/ GetDosage(DrugNames, Ages)
    \/ GetAlternatives(DrugNames)
    \/ GetMedicineInfo(DrugNames)

SpecLookup == InitLookup /\ [][NextLookup]_vars

\* The importer, run any number of times on changing feed files, while the
\* service looks medicines up.
InitImport ==
    /\ orders = <<>>
    /\ inflight = {}
    /\ replies = <<>>
    /\ json_file \in Files
    /\ medicines = NeverImported
    /\ printed = ""
    /\ import_pc = "idle"
    /\ f = NoFile
    /\ reading = {}
    /\ ner_model = "pipeline"
    /\ tesseract = TRUE
    /\ out = NoCall

NextImport ==
    \/ ImportCheck
    \/ ImportDrop
    \/ ImportCreate
    \/ ImportOpen
    \/ ImportRead
    \/ ImportPrint
    \/ RemoveFeed
    \/ WriteFeed
    \/ GetMedicineInfo(ProbeNames)

SpecImport == InitImport /\ [][NextImport]_vars

\* Drug extraction, in every state the two engines can be in at start-up.
InitExtract ==
    /\ orders = <<>>
    /\ inflight = {}
    /\ replies = <<>>
    /\ json_file = NoFile
    /\ medicines = NeverImported
    /\ printed = ""
    /\ import_pc = "idle"
    /\ f = NoFile
    /\ reading = {}
    /\ ner_model \in {"pipeline", "None"}
    /\ tesseract \in BOOLEAN
    /\ out = NoCall

NextExtract ==
    \/ ExtractBegin(Uploads)
    \/ ExtractResume(Texts, SeqsUpTo(Entities, MaxSpans))

SpecExtract == InitExtract /\ [][NextExtract]_vars

(***************************************************************************)
(* Properties.                                                             *)
(***************************************************************************)
\* The lower-case form of a string, as the properties mean it.
LowerForm(s) == IF s \in DOMAIN LowerTable THEN LowerTable[s] ELSE s

LowerForms(names) == [k \in DOMAIN names |-> LowerForm(names[k])]

\* What order_status is to answer for an order created from `data`.
StatusOf(order_id, data) ==
    [order_id |-> order_id, status |-> "Processing", drugs |-> data.drugs,
     location |-> data.location, mobile_number |-> data.mobile_number]

\* C1: once order_medicines has created an order and returned its order_id,
\* every later step keeps the entry as it is (no update, no delete) and
\* order_status of that id answers the submitted drugs, location and
\* mobile_number with status "Processing".
OrderKeptAsSubmitted ==
    [][ /\ \A id \in DOMAIN orders : id \in DOMAIN orders' /\ orders'[id] = orders[id]
        /\ \A k \in DOMAIN replies' :
              order_status(orders', replies'[k].reply.order_id)
                = Return(StatusOf(replies'[k].reply.order_id, replies'[k].data)) ]_vars

\* An order_status call answers for the first order after a later order was created.
OrderKeptWitness ==
    /\ Len(replies) >= 2
    /\ out.op = "order_status"
    /\ out.args[1] = replies[1].reply.order_id
    /\ out.result = StatusOf(replies[1].reply.order_id, replies[1].data)

\* C2: orders created from requests that were in flight together get pairwise
\* distinct order_ids, the table holds one entry per created order, and
\* order_status of each id answers the fields of the request that produced it,
\* not those of another request.
ConcurrentOrdersIndependent ==
    /\ \A i, j \in DOMAIN replies :
          i # j => replies[i].reply.order_id # replies[j].reply.order_id
    /\ Cardinality(DOMAIN orders) = Len(replies)
    /\ \A i \in DOMAIN replies :
          LET id == replies[i].reply.order_id IN
          /\ order_status(orders, id) = Return(StatusOf(id, replies[i].data))
          /\ orders[id].patient = replies[i].data.patient_name
          /\ \A j \in DOMAIN replies :
                StatusOf(id, replies[j].data) # StatusOf(id, replies[i].data)
                => order_status(orders, id).result # StatusOf(id, replies[j].data)

\* Every client's request was in flight when the first one was handled, they
\* were handled out of client order, and all are answered.
ConcurrentOrdersWitness ==
    /\ Len(replies) = NumClients
    /\ replies[1].waiting = Clients
    /\ replies[1].client # 1
    /\ {replies[k].client : k \in DOMAIN replies} = Clients

\* C3: get_medicine_info answers the static record of the lower-cased name
\* without querying the bulk table, else the bulk table's row of that name,
\* else "Medicine not found".
TwoTierLookup ==
    out.op = "get_medicine_info" =>
        LET name == LowerForm(out.args[1]) IN
        IF name \in DOMAIN medicine_info_db
        THEN out.raised = "" /\ out.result = medicine_info_db[name] /\ out.sql = <<>>
        ELSE IF medicines.exists /\ name \in DOMAIN medicines.rows
        THEN out.raised = "" /\ out.result = medicines.rows[name]
        ELSE out.raised = "" /\ out.result = [error |-> "Medicine not found"]

\* C4: no resolver call ends in an exception, whatever the name and whatever
\* the state of the bulk table.
ResolversTotal ==
    out.op \in {"check_interactions", "get_dosage", "get_alternatives", "get_medicine_info"}
    => out.raised = ""

\* C5: check_interactions of two names answers the same for both orders of
\* the names: the one record of the stored fact when the pair is stored in
\* either orientation, the empty sequence otherwise.
SymmetricInteractions ==
    (out.op = "check_interactions" /\ Len(out.args[1]) = 2) =>
        LET a == out.args[1][1]
            b == out.args[1][2]
            stored == {p \in DOMAIN drug_interactions :
                          \/ p = <<LowerForm(a), LowerForm(b)>>
                          \/ p = <<LowerForm(b), LowerForm(a)>>}
        IN  /\ out.raised = ""
            /\ check_interactions(<<b, a>>) = [raised |-> out.raised, result |-> out.result,
                                               sql |-> out.sql]
            /\ IF stored = {} THEN out.result.interactions = <<>>
               ELSE \E p \in stored :
                       out.result.interactions
                         = <<[drugs |-> p, interaction |-> drug_interactions[p]]>>

\* The fact stored as (aspirin, ibuprofen) is found from the other order.
SymmetricWitness ==
    /\ out.op = "check_interactions"
    /\ out.args[1] = <<"Ibuprofen", "aspirin">>
    /\ out.result.interactions
         = <<[drugs |-> <<"aspirin", "ibuprofen">>, interaction |-> "Increased risk of bleeding"]>>

HasDuplicates(names) == \E i, j \in DOMAIN names : i # j /\ names[i] = names[j]

\* C6, as stated: check_interactions answers the empty sequence, and no
\* error, for every list with fewer than two elements or with a duplicate.
EmptyOnShortOrDuplicates ==
    (out.op = "check_interactions" /\ (Len(out.args[1]) < 2 \/ HasDuplicates(out.args[1])))
    => out.raised = "" /\ out.result.interactions = <<>>

\* C6, amended: check_interactions answers the empty sequence, and no error,
\* for every list with fewer than two elements or whose elements are all the
\* same drug name.
EmptyOnShortOrAllSame ==
    (out.op = "check_interactions"
        /\ Cardinality({LowerForm(out.args[1][k]) : k \in DOMAIN out.args[1]}) < 2)
    => out.raised = "" /\ out.result.interactions = <<>>

\* A list of one name written three times, in two spellings.
AllSameWitness ==
    /\ out.op = "check_interactions"
    /\ out.args[1] = <<"ibuprofen", "Ibuprofen", "ibuprofen">>
    /\ out.raised = ""
    /\ out.result.interactions = <<>>

\* C7: for a drug of the dosage table get_dosage answers the child dose for
\* every age below 18 and the adult dose for every age from 18 on, negative
\* ages and zero included; for any other drug it answers "Drug not found".
DosageByAgeBand ==
    out.op = "get_dosage" =>
        LET drug == LowerForm(out.args[1])
            age == out.args[2]
        IN  /\ out.raised = ""
            /\ IF drug \in DOMAIN dosage_by_age
               THEN /\ out.result.recommended_dosage
                         = IF age < 18 THEN dosage_by_age[drug].child
                           ELSE dosage_by_age[drug].adult
                    /\ dosage_by_age[drug].child # dosage_by_age[drug].adult
               ELSE out.result = [error |-> "Drug not found"]

\* A negative age gets the child dose.
DosageWitness ==
    /\ out.op = "get_dosage"
    /\ out.args = <<"aspirin", -1>>
    /\ out.result = [drug |-> "aspirin", recommended_dosage |-> "50mg"]

Outcome(call) == [raised |-> call.raised, result |-> call.result, sql |-> call.sql]

\* The names a resolver's answer holds for the drugs asked about: drug of
\* get_dosage and get_alternatives, name of a get_medicine_info record, the
\* pairs of the check_interactions records.
EchoedNames(call) ==
    IF call.raised # "" THEN {}
    ELSE IF call.op \in {"get_dosage", "get_alternatives"}
    THEN (IF "drug" \in DOMAIN call.result THEN {call.result.drug} ELSE {})
    ELSE IF call.op = "get_medicine_info"
    THEN (IF "name" \in DOMAIN call.result THEN {call.result.name} ELSE {})
    ELSE IF call.op = "check_interactions"
    THEN UNION {{call.result.interactions[k].drugs[1], call.result.interactions[k].drugs[2]} :
                   k \in DOMAIN call.result.interactions}
    ELSE {}

\* The lower-case forms of the drug names a call was given.
AskedNames(call) ==
    IF call.op = "check_interactions"
    THEN {LowerForm(call.args[1][m]) : m \in DOMAIN call.args[1]}
    ELSE IF call.op \in {"get_dosage", "get_alternatives", "get_medicine_info"}
    THEN {LowerForm(call.args[1])}
    ELSE {}

\* A resolver call answers the same for every spelling of its drug names that
\* differs only in letter case.
SameForEverySpelling ==
    /\ out.op = "get_dosage" =>
          \A v \in DrugNames :
             LowerForm(v) = LowerForm(out.args[1]) => get_dosage(v, out.args[2]) = Outcome(out)
    /\ out.op = "get_alternatives" =>
          \A v \in DrugNames :
             LowerForm(v) = LowerForm(out.args[1]) => get_alternatives(v) = Outcome(out)
    /\ out.op = "get_medicine_info" =>
          \A v \in DrugNames :
             LowerForm(v) = LowerForm(out.args[1])
             => get_medicine_info(medicines, v) = Outcome(out)
    /\ out.op = "check_interactions" =>
          \A l \in DrugLists :
             LowerForms(l) = LowerForms(out.args[1]) => check_interactions(l) = Outcome(out)

\* C8 as claimed: a resolver call answers the same for every spelling of its
\* drug names that differs only in letter case, and every drug name in the
\* answer is the lower-case form of a name asked about.
CaseInsensitiveEchoLower ==
    /\ SameForEverySpelling
    /\ EchoedNames(out) \subseteq AskedNames(out)

\* C8: a resolver call answers the same for every spelling of its drug names
\* that differs only in letter case; every drug name in the answer is the
\* lower-case form of a name asked about, except that get_medicine_info, for
\* a name of the static table, answers with the static record as stored, whose
\* name is the capitalised display name whatever the spelling asked.
CaseInsensitive ==
    /\ SameForEverySpelling
    /\ IF out.op = "get_medicine_info" /\ LowerForm(out.args[1]) \in DOMAIN medicine_info_db
       THEN /\ out.raised = ""
            /\ out.result = medicine_info_db[LowerForm(out.args[1])]
            /\ out.result.name \notin AskedNames(out)
            /\ LowerForm(out.result.name) \in AskedNames(out)
       ELSE EchoedNames(out) \subseteq AskedNames(out)

\* An upper-case name of the static table is looked up and answered with the
\* stored record, whose name is neither the spelling asked nor its lower case.
CaseWitness ==
    /\ out.op = "get_medicine_info"
    /\ out.args = <<"ASPIRIN">>
    /\ out.raised = ""
    /\ out.result.name = "Aspirin"

\* A record's name as the importer resolves it: the first generic name in
\* lower case when the record has generic names, else the first brand name in
\* lower case, else none ("").
ResolvedName(item) ==
    IF Len(item.generic_name) > 0 THEN LowerForm(item.generic_name[1].str)
    ELSE IF Len(item.brand_name) > 0 THEN LowerForm(item.brand_name[1].str)
    ELSE ""

\* C9: the commit of a successful import leaves the table mapping each key
\* to the fields of the first record, in the order of the feed the run read,
\* whose resolved name is the key; later records of the same key change
\* nothing, records without a name add no row, and no row of an earlier import
\* is left.
FirstRecordWins ==
    [][ (import_pc = "opened" /\ import_pc' = "committed") =>
        LET feed == f.results
            keys == {ResolvedName(feed[k]) : k \in DOMAIN feed} \ {""}
            first(key) == CHOOSE k \in DOMAIN feed :
                             /\ ResolvedName(feed[k]) = key
                             /\ \A h \in 1..(k - 1) : ResolvedName(feed[h]) # key
        IN  /\ medicines'.exists
            /\ DOMAIN medicines'.rows = keys
            /\ \A key \in keys :
                  medicines'.rows[key]
                    = [name |-> key, description |-> item_uses(feed[first(key)]),
                       uses |-> item_uses(feed[first(key)]),
                       side_effects |-> item_side_effects(feed[first(key)])] ]_vars

\* The feed in place holds two records that resolve to one key, one by its
\* brand and one by its generic name, with different fields; a run has
\* committed and the table holds the first record's fields and nothing else.
FirstRecordWitness ==
    /\ import_pc = "committed"
    /\ json_file.exists /\ json_file.well_formed
    /\ Len(json_file.results) = 2
    /\ json_file.results[1].generic_name = <<>>
    /\ json_file.results[2].generic_name # <<>>
    /\ ~item_raises(json_file.results[1]) /\ ~item_raises(json_file.results[2])
    /\ ResolvedName(json_file.results[1]) = "metformin"
    /\ ResolvedName(json_file.results[2]) = "metformin"
    /\ item_row(json_file.results[1]) # item_row(json_file.results[2])
    /\ medicines.exists
    /\ DOMAIN medicines.rows = {"metformin"}
    /\ medicines.rows["metformin"] = item_row(json_file.results[1])

\* C10: extracted_drugs lists, each once, exactly the lower-cased span texts
\* that are tagged drug or chemical and are keys of the dosage table.
ExtractedAreKnownTaggedDrugs ==
    (out.op = "extract_drugs" /\ "extracted_drugs" \in DOMAIN out.result) =>
        LET listed == out.result.extracted_drugs
            spans == out.args[3].results
        IN  /\ \A i, j \in DOMAIN listed : i # j => listed[i] # listed[j]
            /\ {listed[k] : k \in DOMAIN listed}
                 = {LowerForm(spans[k].word) :
                       k \in {i \in DOMAIN spans :
                                /\ LowerForm(spans[i].entity_group) \in {"drug", "chemical"}
                                /\ LowerForm(spans[i].word) \in DOMAIN dosage_by_age}}

\* A known drug is kept and a tagged name outside the dosage table is left out.
ExtractedWitness ==
    /\ out.op = "extract_drugs"
    /\ "extracted_drugs" \in DOMAIN out.result
    /\ out.args[3].results = <<Entity("drug", "Metformin"), Entity("DRUG", "Aspirin")>>
    /\ out.result.extracted_drugs = <<"aspirin">>

\* C11: check_interactions emits one record for every index pair (i, j),
\* i < j, whose lower-cased names have a fact stored as (drugs[i], drugs[j])
\* or as (drugs[j], drugs[i]), no record for any other pair, and the records
\* stand in the order of their pairs: i ascending, then j ascending.
OneRecordPerPairInOrder ==
    out.op = "check_interactions" =>
        LET drugs == LowerForms(out.args[1])
            found == out.result.interactions
            stored(p) == {q \in DOMAIN drug_interactions :
                             \/ q = <<drugs[p[1]], drugs[p[2]]>>
                             \/ q = <<drugs[p[2]], drugs[p[1]]>>}
            hits == {p \in (DOMAIN drugs) \X (DOMAIN drugs) : p[1] < p[2] /\ stored(p) # {}}
            before(p, q) == p[1] < q[1] \/ (p[1] = q[1] /\ p[2] < q[2])
            place(p) == 1 + Cardinality({q \in hits : before(q, p)})
        IN  /\ out.raised = ""
            /\ Len(found) = Cardinality(hits)
            /\ \A p \in hits :
                  \E q \in stored(p) :
                      found[place(p)] = [drugs |-> q, interaction |-> drug_interactions[q]]

\* Three names with two stored pairs, one of them stored in the other
\* orientation; the pair (2, 3) has no fact and gives no record.
OneRecordPerPairWitness ==
    /\ out.op = "check_interactions"
    /\ out.args[1] = <<"ibuprofen", "paracetamol", "aspirin">>
    /\ out.result.interactions
         = << [drugs |-> <<"paracetamol", "ibuprofen">>, interaction |-> "Generally safe"],
              [drugs |-> <<"aspirin", "ibuprofen">>, interaction |-> "Increased risk of bleeding"] >>

====
